---------------------------- MODULE Spec2Model ----------------------------
(***************************************************************************)
(* SpeasyTTS text-to-audio pipeline (server/openai.ts,                     *)
(* server/audio-validation.ts) and the request handler that starts it      *)
(* (server/routes.ts, POST /api/articles).                                 *)
(*                                                                         *)
(* A JavaScript string is modelled as a sequence of atoms.  An atom is a   *)
(* maximal run of characters of one class: a word (a run of `len`          *)
(* characters that are neither whitespace nor punctuation, identified by   *)
(* `id`), or one delimiter character: " " (space), "\n" (newline), "."     *)
(* (one of . ! ?), "," (comma) or ";" (semicolon).  The word kind "conj"   *)
(* is one of the words and / or / but.  Every regular expression of        *)
(* chunkText only looks at these classes, so its matches always fall on    *)
(* atom boundaries.  The length of a string is the sum of the lengths of   *)
(* its atoms, so the real limits 3800, 100 and 4096 are kept.              *)
(***************************************************************************)
EXTENDS Integers, Sequences, FiniteSets, TLC

(***************************************************************************)
(* Program constants                                                       *)
(***************************************************************************)
MAX_CHUNK_SIZE == 3800

MIN_CHUNK_SIZE == 100

OPENAI_LIMIT == 4096

(***************************************************************************)
(* Bounds of the model                                                     *)
(***************************************************************************)
\* longest input text of the segmentation specification, in words
MaxItems == 3

\* longest input text of a generateSpeech run, in words
MaxRunItems == 2

\* most chunks handed to generateSpeechChunk directly
MaxSynthChunks == 3

\* most deletions that fail in one cleanup step
MaxUnlinkFailures == 1

\* most POST /api/articles requests in flight together
MaxRequests == 2

\* the calendar days the server runs through
MaxDays == 2

(***************************************************************************)
(* Strings                                                                 *)
(***************************************************************************)
W(i, n) == [k |-> "w", id |-> i, len |-> n]

SP == [k |-> " ", id |-> 0, len |-> 1]

NL == [k |-> "\n", id |-> 0, len |-> 1]

DOT == [k |-> ".", id |-> 0, len |-> 1]

COMMA == [k |-> ",", id |-> 0, len |-> 1]

\* the character classes
Kinds == {"w", "conj", " ", "\n", ".", ",", ";"}

\* \s
WsKinds == {" ", "\n"}

\* [.!?]
TermKinds == {"."}

IsWs(a) == a.k \in WsKinds

IsTerm(a) == a.k \in TermKinds

RECURSIVE StrLen(_)
\* String.prototype.length
StrLen(s) == IF s = <<>> THEN 0 ELSE Head(s).len + StrLen(Tail(s))

\* String.prototype.trim
Trim(s) ==
  LET keep == {i \in 1..Len(s) : ~IsWs(s[i])}
  IN IF keep = {} THEN <<>>
     ELSE LET lo == CHOOSE i \in keep : \A j \in keep : i <= j
              hi == CHOOSE i \in keep : \A j \in keep : j <= i
          IN SubSeq(s, lo, hi)

\* the last index of the maximal run of atoms of the classes ks that starts at p
\* (p - 1 when s[p] is of another class)
RunEnd(s, p, ks) ==
  LET stops == {q \in p..Len(s) : s[q].k \notin ks}
  IN IF stops = {} THEN Len(s)
     ELSE (CHOOSE q \in stops : \A r \in stops : q <= r) - 1

RECURSIVE SplitParaFrom(_, _, _)
SplitParaFrom(s, start, p) ==
  IF p > Len(s) THEN <<SubSeq(s, start, Len(s))>>
  ELSE IF s[p].k = "\n"
       THEN LET e == RunEnd(s, p + 1, WsKinds)
                nls == {j \in (p + 1)..e : s[j].k = "\n"}
            IN IF nls = {} THEN SplitParaFrom(s, start, p + 1)
               ELSE LET last == CHOOSE j \in nls : \A x \in nls : x <= j
                    IN <<SubSeq(s, start, p - 1)>> \o SplitParaFrom(s, last + 1, last + 1)
       ELSE SplitParaFrom(s, start, p + 1)

\* text.split(/\n\s*\n/)
SplitParagraphs(s) == SplitParaFrom(s, 1, 1)

RECURSIVE MatchSentFrom(_, _)
MatchSentFrom(s, p) ==
  IF p > Len(s) THEN <<>>
  ELSE IF IsTerm(s[p]) THEN MatchSentFrom(s, p + 1)
  ELSE LET q == RunEnd(s, p, Kinds \ TermKinds)
       IN IF q = Len(s) THEN <<>>
          ELSE LET r == RunEnd(s, q + 1, TermKinds)
               IN <<SubSeq(s, p, r)>> \o MatchSentFrom(s, r + 1)

\* paragraph.match(/[^.!?]+[.!?]+/g) || [paragraph]
MatchSentences(s) ==
  LET m == MatchSentFrom(s, 1) IN IF m = <<>> THEN <<s>> ELSE m

\* (?<=,|\sand\s|\sor\s|\sbut\s|\;) at position p
ClauseLookBehind(s, p) ==
  /\ p > 1
  /\ \/ s[p - 1].k \in {",", ";"}
     \/ /\ p > 3
        /\ IsWs(s[p - 1])
        /\ s[p - 2].k = "conj"
        /\ IsWs(s[p - 3])

RECURSIVE SplitClausesFrom(_, _, _)
SplitClausesFrom(s, start, p) ==
  IF p > Len(s) THEN <<SubSeq(s, start, Len(s))>>
  ELSE IF IsWs(s[p]) /\ ClauseLookBehind(s, p)
       THEN LET r == RunEnd(s, p, WsKinds)
            IN <<SubSeq(s, start, p - 1)>> \o SplitClausesFrom(s, r + 1, r + 1)
       ELSE SplitClausesFrom(s, start, p + 1)

\* trimmedSentence.split(/(?<=,|\sand\s|\sor\s|\sbut\s|\;)\s+/)
SplitClauses(s) == SplitClausesFrom(s, 1, 1)

RECURSIVE SplitWordsFrom(_, _, _)
SplitWordsFrom(s, start, p) ==
  IF p > Len(s) THEN <<SubSeq(s, start, Len(s))>>
  ELSE IF IsWs(s[p])
       THEN LET r == RunEnd(s, p, WsKinds)
            IN <<SubSeq(s, start, p - 1)>> \o SplitWordsFrom(s, r + 1, r + 1)
       ELSE SplitWordsFrom(s, start, p + 1)

\* part.split(/\s+/)
SplitWords(s) == SplitWordsFrom(s, 1, 1)

\* a + (a ? " " : "") + b
JoinSp(a, b) == a \o (IF a # <<>> THEN <<SP>> ELSE <<>>) \o b

\* if (x.length >= MIN_CHUNK_SIZE) chunks.push(x.trim())
PushIfMin(chunks, x) ==
  IF StrLen(x) >= MIN_CHUNK_SIZE THEN Append(chunks, Trim(x)) ELSE chunks

(***************************************************************************)
(* chunkText (server/openai.ts 611-678).  The loops are folds over an      *)
(* accumulator that holds the loop's variables.                            *)
(***************************************************************************)
RECURSIVE WordLoop(_, _, _)
\* for (const word of words): acc = [chunks, wordChunk]
WordLoop(words, k, acc) ==
  IF k > Len(words) THEN acc
  ELSE LET word == words[k]
       IN IF StrLen(acc.wordChunk) + 1 + StrLen(word) <= MAX_CHUNK_SIZE
          THEN WordLoop(words, k + 1,
                 [chunks |-> acc.chunks, wordChunk |-> JoinSp(acc.wordChunk, word)])
          ELSE WordLoop(words, k + 1,
                 [chunks |-> PushIfMin(acc.chunks, acc.wordChunk), wordChunk |-> word])

\* the word-by-word split of one oversized part, appended to chunks
SplitByWords(chunks, part) ==
  LET acc == WordLoop(SplitWords(part), 1, [chunks |-> chunks, wordChunk |-> <<>>])
  IN PushIfMin(acc.chunks, acc.wordChunk)

RECURSIVE PartLoop(_, _, _)
\* for (const part of parts)
PartLoop(parts, k, chunks) ==
  IF k > Len(parts) THEN chunks
  ELSE LET part == parts[k]
       IN IF StrLen(part) <= MAX_CHUNK_SIZE
          THEN PartLoop(parts, k + 1, Append(chunks, Trim(part)))
          ELSE PartLoop(parts, k + 1, SplitByWords(chunks, part))

RECURSIVE SentenceLoop(_, _, _)
\* for (const sentence of sentences): acc = [chunks, currentChunk]
SentenceLoop(sentences, k, acc) ==
  IF k > Len(sentences) THEN acc
  ELSE LET trimmedSentence == Trim(sentences[k])
       IN IF StrLen(trimmedSentence) > MAX_CHUNK_SIZE
          THEN SentenceLoop(sentences, k + 1,
                 [chunks |-> PartLoop(SplitClauses(trimmedSentence), 1, acc.chunks),
                  currentChunk |-> acc.currentChunk])
          ELSE IF StrLen(acc.currentChunk) + 1 + StrLen(trimmedSentence) <= MAX_CHUNK_SIZE
          THEN SentenceLoop(sentences, k + 1,
                 [chunks |-> acc.chunks,
                  currentChunk |-> JoinSp(acc.currentChunk, trimmedSentence)])
          ELSE SentenceLoop(sentences, k + 1,
                 [chunks |-> PushIfMin(acc.chunks, acc.currentChunk),
                  currentChunk |-> trimmedSentence])

\* the state of the sentence loop of one oversized paragraph when it ends
OversizedParagraph(chunks, paragraph) ==
  SentenceLoop(MatchSentences(paragraph), 1, [chunks |-> chunks, currentChunk |-> <<>>])

RECURSIVE ParagraphLoop(_, _, _)
\* for (const paragraph of paragraphs)
ParagraphLoop(paragraphs, k, chunks) ==
  IF k > Len(paragraphs) THEN chunks
  ELSE LET paragraph == paragraphs[k]
       IN IF StrLen(Trim(paragraph)) = 0
          THEN ParagraphLoop(paragraphs, k + 1, chunks)
          ELSE IF StrLen(paragraph) <= MAX_CHUNK_SIZE
          THEN ParagraphLoop(paragraphs, k + 1, Append(chunks, Trim(paragraph)))
          ELSE LET acc == OversizedParagraph(chunks, paragraph)
               IN ParagraphLoop(paragraphs, k + 1, PushIfMin(acc.chunks, acc.currentChunk))

\* chunks.filter(chunk => chunk.length >= MIN_CHUNK_SIZE)
FilterMin(chunks) == SelectSeq(chunks, LAMBDA c : StrLen(c) >= MIN_CHUNK_SIZE)

chunkText(text) == FilterMin(ParagraphLoop(SplitParagraphs(text), 1, <<>>))

(***************************************************************************)
(* Input texts: a text of n words is n items, each a word of some length   *)
(* followed by one separator.                                              *)
(***************************************************************************)
WordLens == {60, 150, 2000, 3900}

Seps == {"sp", "comma", "dot", "para", "dotpara"}

SepAtoms(sep) ==
  CASE sep = "sp" -> <<SP>>
    [] sep = "comma" -> <<COMMA, SP>>
    [] sep = "dot" -> <<DOT, SP>>
    [] sep = "para" -> <<NL, NL>>
    [] sep = "dotpara" -> <<DOT, NL, NL>>

RECURSIVE Render(_, _)
Render(items, k) ==
  IF k > Len(items) THEN <<>>
  ELSE <<W(k, items[k][1])>> \o SepAtoms(items[k][2]) \o Render(items, k + 1)

TextsOf(lens, seps, n) ==
  {Render(it, 1) : it \in UNION {[1..m -> lens \X seps] : m \in 0..n}}

\* the texts given to a generateSpeech run
RunLens == {60, 150, 4100}

RunSeps == {"sp", "para"}

(***************************************************************************)
(* Audio buffers and scratch files.  A buffer records which chunks' speech *)
(* it holds (src, in playing order), which encoder wrote it, its bitrate   *)
(* (kbps), sample rate (Hz), size (MiB) and its tag block: the title and   *)
(* the episode number written into it (NoTags when it has none).           *)
(***************************************************************************)
NoTags == [title |-> "", episodeNumber |-> 0]

\* the metadata argument of generateSpeech (title, episodeNumber), as the route passes it
metadata == [title |-> "custom-text", episodeNumber |-> 1]

NoBuffer == [src |-> <<>>, enc |-> "none", br |-> 0, sr |-> 0, size |-> 0, tags |-> NoTags]

\* what the speech capability may answer for chunk i
SynthBitrates == {128, 500}

SynthSampleRates == {24000, 44100}

\* sizes in MiB, on both sides of the 200 MiB limit of the validator
SynthSizes == {1, 201}

SynthBuffer(i, br, sr, size) ==
  [src |-> <<i>>, enc |-> "tts", br |-> br, sr |-> sr, size |-> size, tags |-> NoTags]

\* A path of the scratch directory /tmp: the kind of name, the number in the name,
\* the random token in the name ("" when the name holds none), the title in the
\* name ("" when the name holds none) and the extension.
Path(kind, n, token, title, ext) ==
  [kind |-> kind, n |-> n, token |-> token, title |-> title, ext |-> ext, date |-> 0]

\* const sessionId = randomUUID() of this run of combineAudioBuffers
sessionId == "uuid-1"

\* randomUUID() in the name of tempFile of this run of generateSpeech
tempId == "uuid-2"

\* join(tempDir, `${sessionId}_${i}.mp3`)
ChunkFileOf(sid, i) == Path("chunk", i, sid, "", "mp3")

ChunkFile(i) == ChunkFileOf(sessionId, i)

\* join(tempDir, `${sessionId}_list.txt`)
InputListFileOf(sid) == Path("list", 0, sid, "", "txt")

inputListFile == InputListFileOf(sessionId)

\* the calendar day of the server's clock, new Date().toISOString().split('T')[0]
VARIABLE today

\* generatePodcastFilename: `${date}-episode-${episodeNumber}-${sanitizedTitle}.mp3`,
\* with the date of the moment of the call
generatePodcastFilename(episodeNumber, title) ==
  [Path("episode", episodeNumber, "", title, "mp3") EXCEPT !.date = today]

\* join(tempDir, generatePodcastFilename(metadata.episodeNumber, metadata.title))
OutputFileOf(md) == generatePodcastFilename(md.episodeNumber, md.title)

outputFile == OutputFileOf(metadata)

\* join(tempDir, `temp_${randomUUID()}.mp3`)
TempFileOf(uuid) == Path("temp", 0, uuid, "", "mp3")

tempFile == TempFileOf(tempId)

\* path.join(path.dirname(filePath), `fixed_${path.basename(filePath)}`)
FixedPath(p) == [p EXCEPT !.kind = "fixed_" \o p.kind]

\* path.extname(filePath).toLowerCase().replace('.', '')
ExtName(p) == p.ext

AudioFile(b) == [buf |-> b, lines |-> <<>>]

ListFile(lines) == [buf |-> NoBuffer, lines |-> lines]

\* writeFile(path, content)
WriteFile(fsys, p, c) == (p :> c) @@ fsys

\* unlink(path) where a failure (ENOENT) is ignored by the caller
Unlink(fsys, p) == [q \in DOMAIN fsys \ {p} |-> fsys[q]]

RECURSIVE UnlinkAll(_, _)
UnlinkAll(fsys, ps) ==
  IF ps = <<>> THEN fsys ELSE UnlinkAll(Unlink(fsys, Head(ps)), Tail(ps))

SeqRange(ps) == {ps[k] : k \in 1..Len(ps)}

\* unlink(file) can fail on a file that is there: the sets of files of ps whose
\* deletion fails in one cleanup step
UnlinkFailures(fsys, ps) ==
  {bad \in SUBSET (SeqRange(ps) \cap DOMAIN fsys) : Cardinality(bad) <= MaxUnlinkFailures}

\* the directory after unlink was called on every path of ps and failed on bad
UnlinkAllBut(fsys, ps, bad) ==
  [q \in DOMAIN fsys \ (SeqRange(ps) \ bad) |-> fsys[q]]

(***************************************************************************)
(* audio-validation.ts                                                     *)
(***************************************************************************)
MAX_FILE_MB == 200

MIN_BITRATE == 64

MAX_BITRATE == 320

defaultRequirements ==
  [maxFileSize |-> MAX_FILE_MB, minBitrate |-> MIN_BITRATE, maxBitrate |-> MAX_BITRATE,
   allowedSampleRates |-> {44100, 48000}, allowedFormats |-> {"mp3", "m4a"}]

NoMeta ==
  [fileSize |-> 0, probed |-> FALSE, bitrate |-> 0, sampleRate |-> 0, hasId3Tags |-> FALSE]

NoReport == [isValid |-> FALSE, errors |-> <<>>, warnings |-> <<>>, metadata |-> NoMeta]

Opt(cond, x) == IF cond THEN <<x>> ELSE <<>>

\* mutant of StreamErrors: the checks stop at the first error
StreamErrorsFirstOnly(b, requirements) ==
  IF b.br < requirements.minBitrate THEN <<"Bitrate is below minimum">>
  ELSE IF b.br > requirements.maxBitrate THEN <<"Bitrate exceeds maximum">>
  ELSE Opt(b.sr \notin requirements.allowedSampleRates, "Sample rate is not supported")

\* mutant of StreamErrors: the bounds of the bitrate range are outside the range
StreamErrorsExclusive(b, requirements) ==
     Opt(b.br <= requirements.minBitrate, "Bitrate is below minimum")
  \o Opt(b.br >= requirements.maxBitrate, "Bitrate exceeds maximum")
  \o Opt(b.sr \notin requirements.allowedSampleRates, "Sample rate is not supported")

\* validatePodcastAudio: the bitrate and sample rate checks on the probed stream
StreamErrors(b, requirements) ==
     Opt(b.br < requirements.minBitrate, "Bitrate is below minimum")
  \o Opt(b.br > requirements.maxBitrate, "Bitrate exceeds maximum")
  \o Opt(b.sr \notin requirements.allowedSampleRates, "Sample rate is not supported")

\* mutant of Verdict: a warning makes the report invalid too
VerdictCountingWarnings(errors, warnings) == errors = <<>> /\ warnings = <<>>

\* validatePodcastAudio: result.isValid = result.errors.length === 0
Verdict(errors, warnings) == errors = <<>>

\* what the ffprobe call for the streams can give: the audio stream, an answer
\* without an audio stream, or a failure (ffprobe missing, corrupt file)
ProbeOutcomes == {"ok", "noaudio", "fail"}

\* mutant of ProbeErrors: a failed probe ends the validation with its error alone
ProbeErrorsAborting(collected, b, requirements, probe) ==
  IF probe = "fail" THEN <<"Failed to read audio metadata">>
  ELSE IF probe = "noaudio" THEN collected \o <<"No audio stream found in file">>
  ELSE collected \o StreamErrors(b, requirements)

\* validatePodcastAudio: try { execSync(ffprobe ...); ... } catch { errors.push(...) },
\* after the size and the extension checks have pushed their errors
ProbeErrors(collected, b, requirements, probe) ==
  collected \o (IF probe = "fail" THEN <<"Failed to read audio metadata">>
                ELSE IF probe = "noaudio" THEN <<"No audio stream found in file">>
                ELSE StreamErrors(b, requirements))

\* mutant of TagWarnings: the tag step runs for every format
TagWarningsAnyFormat(b, fileExt, id3Ok) ==
  IF ~id3Ok THEN <<"Could not check ID3 tags">>
  ELSE Opt(b.tags = NoTags, "Missing ID3 tags")

\* validatePodcastAudio: if (fileExt === 'mp3') { try { ... hasId3Tags ...
\* warnings.push('Missing ID3 tags') } catch { warnings.push('Could not check ID3 tags') } }
TagWarnings(b, fileExt, id3Ok) ==
  IF fileExt # "mp3" THEN <<>>
  ELSE IF ~id3Ok THEN <<"Could not check ID3 tags">>
  ELSE Opt(b.tags = NoTags, "Missing ID3 tags")

\* validatePodcastAudio(filePath, requirements).  probe: the outcome of the ffprobe
\* call for the streams; id3Ok: the ffprobe call for the tags succeeds.
validatePodcastAudio(fsys, filePath, requirements, probe, id3Ok) ==
  IF filePath \notin DOMAIN fsys
  THEN [isValid |-> Verdict(<<"Failed to access file">>, <<>>),
        errors |-> <<"Failed to access file">>,
        warnings |-> <<>>, metadata |-> NoMeta]
  ELSE LET b == fsys[filePath].buf
           fileExt == ExtName(filePath)
           errors ==
             ProbeErrors(
                  Opt(b.size > requirements.maxFileSize, "File size exceeds maximum")
               \o Opt(fileExt \notin requirements.allowedFormats,
                      "File format is not supported"),
               b, requirements, probe)
           hasId3Tags == fileExt = "mp3" /\ id3Ok /\ b.tags # NoTags
           warnings == TagWarnings(b, fileExt, id3Ok)
       IN [isValid |-> Verdict(errors, warnings), errors |-> errors, warnings |-> warnings,
           metadata |-> [fileSize |-> b.size,
                         probed |-> probe = "ok",
                         bitrate |-> IF probe = "ok" THEN b.br ELSE 0,
                         sampleRate |-> IF probe = "ok" THEN b.sr ELSE 0,
                         hasId3Tags |-> hasId3Tags]]

\* fixAudioIssues: validation.metadata.bitrate && (bitrate < 64 || bitrate > 320)
FixBitrate(v) ==
  v.metadata.probed /\ v.metadata.bitrate # 0
    /\ (v.metadata.bitrate < 64 \/ v.metadata.bitrate > 320)

\* fixAudioIssues: validation.metadata.sampleRate && !allowedSampleRates.includes(sampleRate)
FixSampleRate(v) ==
  v.metadata.probed /\ v.metadata.sampleRate # 0
    /\ v.metadata.sampleRate \notin defaultRequirements.allowedSampleRates

\* mutant of needsConversion: every failing report is answered with a re-encode
needsConversionAlways(v) == TRUE

needsConversion(v) == FixBitrate(v) \/ FixSampleRate(v)

\* fixAudioIssues: the ffmpeg processes one call starts: none when there is nothing
\* to convert, else one, ffmpeg -i filePath [-b:a 128k] [-ar 44100] -codec:a libmp3lame
\* outputPath.  ba: the command holds -b:a 128k; ar: it holds -ar 44100.
FixCommands(filePath, v) ==
  IF ~needsConversion(v) THEN <<>>
  ELSE <<[cmd |-> "fix", codec |-> "libmp3lame", list |-> <<filePath>>,
          ba |-> FixBitrate(v), ar |-> FixSampleRate(v)]>>

\* the file that command writes at outputPath
Reencode(b, v) ==
  [src |-> b.src, enc |-> "fixed",
   br |-> IF FixBitrate(v) THEN 128 ELSE b.br,
   sr |-> IF FixSampleRate(v) THEN 44100 ELSE b.sr,
   size |-> b.size, tags |-> b.tags]

RECURSIVE ConcatSrc(_, _)
ConcatSrc(fsys, lines) ==
  IF lines = <<>> THEN <<>>
  ELSE fsys[Head(lines)].buf.src \o ConcatSrc(fsys, Tail(lines))

RECURSIVE ConcatSize(_, _)
ConcatSize(fsys, lines) ==
  IF lines = <<>> THEN 0
  ELSE fsys[Head(lines)].buf.size + ConcatSize(fsys, Tail(lines))

\* ffmpeg -f concat -safe 0 -i list -c:a libmp3lame -b:a 128k -ar 44100 -ac 2
\*        -id3v2_version 3 -metadata title=${metadata.title} ...
\*        -metadata podcast:episode=${metadata.episodeNumber} ... outputFile
ConcatOutput(fsys, lines) ==
  [src |-> ConcatSrc(fsys, lines), enc |-> "concat", br |-> 128, sr |-> 44100,
   size |-> ConcatSize(fsys, lines), tags |-> metadata]

(***************************************************************************)
(* State of one generateSpeech(text, metadata) run                         *)
(***************************************************************************)
VARIABLES
  text,            \* the argument
  chunks,          \* const chunks
  pc,              \* where the run is
  audioBuffers,    \* const audioBuffers
  calls,           \* outbound calls to the speech capability and their answers
  combineCalls,    \* the number of calls of combineAudioBuffers
  files,           \* the scratch directory: path -> content
  inputFiles,      \* combineAudioBuffers: const inputFiles
  spawned,         \* external ffmpeg processes started, in order
  combinedBuffer,  \* const combinedBuffer
  validation,      \* const validation
  pending,         \* an error on its way through a finally block ("" when none)
  result,          \* the settled promise of generateSpeech
  thrown,          \* the errors generateSpeech rejected with
  unlinkFailed,    \* the scratch paths on which an unlink call failed
  validated,       \* the paths handed to validatePodcastAudio, in order
  route,           \* POST /api/articles: where the promise chain on generateSpeech is
  status,          \* POST /api/articles: the status column of the article row
  statusLog,       \* the values db.update has set status to, in order
  audioDir,        \* the directory public/audio: path -> content
  articles,        \* the table articles: id -> row
  reqs,            \* the POST /api/articles requests: where each handler is, its locals
  dels             \* the DELETE /api/articles/:id requests, one per id

\* the state of the run of generateSpeech
runVars == <<text, chunks, pc, audioBuffers, calls, combineCalls, files, inputFiles,
             spawned, combinedBuffer, validation, pending, result, thrown, validated,
             unlinkFailed>>

\* the state of the caller of generateSpeech, the handler of POST /api/articles
callerVars == <<route, status, statusLog, audioDir>>

\* the table, the requests on it and the clock
siteVars == <<articles, reqs, dels, today>>

vars == <<runVars, callerVars, siteVars>>

\* the audioUrl column of a row that has none (null)
NoUrl == Path("null", 0, "", "", "")

\* db.insert(articles).values({ title, status: "processing", episodeNumber, ... })
Row(title, episodeNumber) ==
  [title |-> title, episodeNumber |-> episodeNumber, status |-> "processing",
   audioUrl |-> NoUrl]

NoRow == [title |-> "", episodeNumber |-> 0, status |-> "", audioUrl |-> NoUrl]

Requests == 1..MaxRequests

\* a request whose handler has not started
NewRequest == [pc |-> "new", title |-> "", nextEpisodeNumber |-> 0, audioFileName |-> NoUrl]

\* no article yet, no request started, the first day
InitSite ==
  /\ articles = <<>>
  /\ reqs = [r \in Requests |-> NewRequest]
  /\ dels = [id \in Requests |-> [pc |-> "idle", article |-> NoRow]]
  /\ today = 1

NoResult == [status |-> "pending", buffer |-> NoBuffer, validation |-> NoReport]

\* the handler of POST /api/articles has inserted the article with status "processing"
InitCaller ==
  /\ status = "processing"
  /\ statusLog = <<>>
  /\ audioDir = <<>>

\* the locals of a run before its first statement, the scratch directory aside
InitRest ==
  /\ audioBuffers = <<>>
  /\ calls = <<>>
  /\ combineCalls = 0
  /\ inputFiles = <<>>
  /\ spawned = <<>>
  /\ combinedBuffer = NoBuffer
  /\ validation = NoReport
  /\ pending = ""
  /\ result = NoResult
  /\ thrown = <<>>
  /\ validated = <<>>
  /\ unlinkFailed = {}
  /\ InitCaller
  /\ InitSite

\* the locals of a run that the handler has called, with an empty scratch directory
InitLocals ==
  /\ files = <<>>
  /\ route = "await"
  /\ InitRest

InitRun ==
  /\ chunks = <<>>
  /\ pc = "start"
  /\ InitLocals

\* generateSpeech rejects with error e
Reject(e) ==
  /\ pc' = "rejected"
  /\ thrown' = Append(thrown, e)
  /\ result' = [NoResult EXCEPT !.status = "rejected"]

\* generateSpeech resolves with { buffer, validation }
Resolve(b, v) ==
  /\ pc' = "done"
  /\ result' = [status |-> "resolved", buffer |-> b, validation |-> v]
  /\ UNCHANGED thrown

\* const chunks = chunkText(text)
Segment ==
  /\ pc = "start"
  /\ route = "await"
  /\ chunks' = chunkText(text)
  /\ pc' = "loop"
  /\ UNCHANGED <<callerVars, siteVars>>
  /\ UNCHANGED <<text, unlinkFailed, validated, audioBuffers, calls, combineCalls, files, inputFiles, spawned,
                 combinedBuffer, validation, pending, result, thrown>>

\* the chunk the for loop of generateSpeech is at
NextChunkIndex == Len(audioBuffers) + 1

\* generateSpeechChunk: if (!text || text.length === 0) throw; if (text.length > 4096) throw
ChunkRefused ==
  /\ pc = "loop"
  /\ NextChunkIndex <= Len(chunks)
  /\ LET n == StrLen(chunks[NextChunkIndex])
     IN /\ n = 0 \/ n > OPENAI_LIMIT
        /\ Reject(IF n = 0 THEN "Empty text chunk received"
                  ELSE "Chunk size exceeds OpenAI's limit of 4096 characters")
  /\ UNCHANGED <<callerVars, siteVars>>
  /\ UNCHANGED <<text, unlinkFailed, validated, chunks, audioBuffers, calls, combineCalls, files, inputFiles,
                 spawned, combinedBuffer, validation, pending>>

\* mutant of SpeechCall: the length check before the outbound call is missing
SpeechCallUnchecked ==
  /\ pc = "loop"
  /\ NextChunkIndex <= Len(chunks)
  /\ calls' = Append(calls, [ev |-> "call", chunk |-> NextChunkIndex])
  /\ pc' = "speech"
  /\ UNCHANGED <<callerVars, siteVars>>
  /\ UNCHANGED <<text, unlinkFailed, validated, chunks, audioBuffers, combineCalls, files, inputFiles, spawned,
                 combinedBuffer, validation, pending, result, thrown>>

\* generateSpeechChunk: await openai.audio.speech.create({ input: text, ... })
SpeechCall ==
  /\ pc = "loop"
  /\ NextChunkIndex <= Len(chunks)
  /\ LET n == StrLen(chunks[NextChunkIndex])
     IN ~(n = 0 \/ n > OPENAI_LIMIT)
  /\ calls' = Append(calls, [ev |-> "call", chunk |-> NextChunkIndex])
  /\ pc' = "speech"
  /\ UNCHANGED <<callerVars, siteVars>>
  /\ UNCHANGED <<text, unlinkFailed, validated, chunks, audioBuffers, combineCalls, files, inputFiles, spawned,
                 combinedBuffer, validation, pending, result, thrown>>

\* the call returns: audioBuffers.push(Buffer.from(await response.arrayBuffer())).
\* Every call of a run names the same model, voice and response_format, so the
\* answers of one run have the same bitrate and sample rate; their sizes differ.
SpeechOk ==
  /\ pc = "speech"
  /\ \E br \in SynthBitrates, sr \in SynthSampleRates, size \in SynthSizes :
       /\ audioBuffers # <<>> => (br = audioBuffers[1].br /\ sr = audioBuffers[1].sr)
       /\ audioBuffers' = Append(audioBuffers, SynthBuffer(NextChunkIndex, br, sr, size))
  /\ calls' = Append(calls, [ev |-> "ok", chunk |-> NextChunkIndex])
  /\ pc' = "loop"
  /\ UNCHANGED <<callerVars, siteVars>>
  /\ UNCHANGED <<text, unlinkFailed, validated, chunks, combineCalls, files, inputFiles, spawned,
                 combinedBuffer, validation, pending, result, thrown>>

\* mutant of SpeechFail: the failed call is retried
SpeechFailRetry ==
  /\ pc = "speech"
  /\ calls' = Append(calls, [ev |-> "fail", chunk |-> NextChunkIndex])
  /\ pc' = "loop"
  /\ UNCHANGED <<callerVars, siteVars>>
  /\ UNCHANGED <<text, unlinkFailed, validated, chunks, audioBuffers, combineCalls, files, inputFiles, spawned,
                 combinedBuffer, validation, pending, result, thrown>>

\* mutant of SpeechFail: the error is swallowed and the loop goes on without the chunk
SpeechFailSwallow ==
  /\ pc = "speech"
  /\ calls' = Append(calls, [ev |-> "fail", chunk |-> NextChunkIndex])
  /\ audioBuffers' = Append(audioBuffers, NoBuffer)
  /\ pc' = "loop"
  /\ UNCHANGED <<callerVars, siteVars>>
  /\ UNCHANGED <<text, unlinkFailed, validated, chunks, combineCalls, files, inputFiles, spawned,
                 combinedBuffer, validation, pending, result, thrown>>

\* the call fails: catch (error) { throw new Error(`Speech generation failed: ...`) }
SpeechFail ==
  /\ pc = "speech"
  /\ calls' = Append(calls, [ev |-> "fail", chunk |-> NextChunkIndex])
  /\ Reject("Speech generation failed")
  /\ UNCHANGED <<callerVars, siteVars>>
  /\ UNCHANGED <<text, unlinkFailed, validated, chunks, audioBuffers, combineCalls, files, inputFiles, spawned,
                 combinedBuffer, validation, pending>>

\* mutant of UseSingle: a single buffer goes through combineAudioBuffers too
UseSingleCombined ==
  /\ pc = "loop"
  /\ NextChunkIndex > Len(chunks)
  /\ Len(audioBuffers) = 1
  /\ combineCalls' = combineCalls + 1
  /\ pc' = "cwrite"
  /\ UNCHANGED <<callerVars, siteVars>>
  /\ UNCHANGED <<text, unlinkFailed, validated, chunks, audioBuffers, calls, files, inputFiles, spawned,
                 combinedBuffer, validation, pending, result, thrown>>

\* audioBuffers.length === 1 ? audioBuffers[0] : ...
UseSingle ==
  /\ pc = "loop"
  /\ NextChunkIndex > Len(chunks)
  /\ Len(audioBuffers) = 1
  /\ combinedBuffer' = audioBuffers[1]
  /\ pc' = "writeTemp"
  /\ UNCHANGED <<callerVars, siteVars>>
  /\ UNCHANGED <<text, unlinkFailed, validated, chunks, audioBuffers, calls, combineCalls, files, inputFiles,
                 spawned, validation, pending, result, thrown>>

\* ... : await combineAudioBuffers(audioBuffers, metadata)
CombineStart ==
  /\ pc = "loop"
  /\ NextChunkIndex > Len(chunks)
  /\ Len(audioBuffers) # 1
  /\ combineCalls' = combineCalls + 1
  /\ pc' = "cwrite"
  /\ UNCHANGED <<callerVars, siteVars>>
  /\ UNCHANGED <<text, unlinkFailed, validated, chunks, audioBuffers, calls, files, inputFiles, spawned,
                 combinedBuffer, validation, pending, result, thrown>>

\* what a failed write or a failed ffmpeg leaves at its output path: nothing, or
\* a truncated file
PartialOutputs(fsys, p) == {fsys, WriteFile(fsys, p, AudioFile(NoBuffer))}

\* combineAudioBuffers: await writeFile(tempFile, audioBuffers[i]) throws, before
\* inputFiles.push(tempFile)
CombineWriteFail ==
  /\ pc = "cwrite"
  /\ Len(inputFiles) < Len(audioBuffers)
  /\ files' \in PartialOutputs(files, ChunkFile(Len(inputFiles) + 1))
  /\ pending' = "writeFile failed"
  /\ pc' = "ccleanup"
  /\ UNCHANGED <<callerVars, siteVars>>
  /\ UNCHANGED <<text, unlinkFailed, validated, chunks, audioBuffers, calls, combineCalls,
                 inputFiles, spawned, combinedBuffer, validation, result, thrown>>

\* combineAudioBuffers: the chunk file is written and pushed, then
\* await writeFile(inputListFile, ...) throws
CombineListWriteFail ==
  /\ pc = "cwrite"
  /\ Len(inputFiles) < Len(audioBuffers)
  /\ LET tmp == ChunkFile(Len(inputFiles) + 1)
     IN /\ files' = WriteFile(files, tmp, AudioFile(audioBuffers[Len(inputFiles) + 1]))
        /\ inputFiles' = Append(inputFiles, tmp)
  /\ pending' = "writeFile failed"
  /\ pc' = "ccleanup"
  /\ UNCHANGED <<callerVars, siteVars>>
  /\ UNCHANGED <<text, unlinkFailed, validated, chunks, audioBuffers, calls, combineCalls,
                 spawned, combinedBuffer, validation, result, thrown>>

\* mutant of CombineWrite: the list is written with flag 'w' on every turn
CombineWriteTruncating ==
  /\ pc = "cwrite"
  /\ Len(inputFiles) < Len(audioBuffers)
  /\ LET i == Len(inputFiles) + 1
         tmp == ChunkFile(i)
         written == WriteFile(files, tmp, AudioFile(audioBuffers[i]))
     IN /\ files' = WriteFile(written, inputListFile, ListFile(<<tmp>>))
        /\ inputFiles' = Append(inputFiles, tmp)
  /\ UNCHANGED <<callerVars, siteVars>>
  /\ UNCHANGED <<text, unlinkFailed, validated, chunks, pc, audioBuffers, calls, combineCalls, spawned,
                 combinedBuffer, validation, pending, result, thrown>>

\* combineAudioBuffers, one turn of the for loop: write ${sessionId}_${i}.mp3 and
\* add its line to the concat list (flag 'w' for i = 0, 'a' afterwards)
CombineWrite ==
  /\ pc = "cwrite"
  /\ Len(inputFiles) < Len(audioBuffers)
  /\ LET i == Len(inputFiles) + 1
         tmp == ChunkFile(i)
         written == WriteFile(files, tmp, AudioFile(audioBuffers[i]))
         old == IF i = 1 \/ inputListFile \notin DOMAIN written THEN <<>>
                ELSE written[inputListFile].lines
     IN /\ files' = WriteFile(written, inputListFile, ListFile(Append(old, tmp)))
        /\ inputFiles' = Append(inputFiles, tmp)
  /\ UNCHANGED <<callerVars, siteVars>>
  /\ UNCHANGED <<text, unlinkFailed, validated, chunks, pc, audioBuffers, calls, combineCalls, spawned,
                 combinedBuffer, validation, pending, result, thrown>>

\* the concat list as ffmpeg finds it when it starts
ListLines(fsys) ==
  IF inputListFile \in DOMAIN fsys THEN fsys[inputListFile].lines ELSE <<>>

\* combineAudioBuffers: spawn('ffmpeg', ['-f', 'concat', '-i', inputListFile, ...])
CombineSpawn ==
  /\ pc = "cwrite"
  /\ Len(inputFiles) = Len(audioBuffers)
  /\ spawned' = Append(spawned, [cmd |-> "concat", codec |-> "libmp3lame",
                                 list |-> ListLines(files),
                                 ba |-> TRUE, ar |-> TRUE])
  /\ pc' = "ffmpeg"
  /\ UNCHANGED <<callerVars, siteVars>>
  /\ UNCHANGED <<text, unlinkFailed, validated, chunks, audioBuffers, calls, combineCalls, files, inputFiles,
                 combinedBuffer, validation, pending, result, thrown>>

\* ffmpeg.on('exit', code => { if (code === 0) resolve() ... }): ffmpeg can only
\* succeed when the list exists and names existing files
FfmpegExitZero ==
  /\ pc = "ffmpeg"
  /\ ListLines(files) # <<>>
  /\ \A k \in 1..Len(ListLines(files)) : ListLines(files)[k] \in DOMAIN files
  /\ files' = WriteFile(files, outputFile, AudioFile(ConcatOutput(files, ListLines(files))))
  /\ pc' = "cread"
  /\ UNCHANGED <<callerVars, siteVars>>
  /\ UNCHANGED <<text, unlinkFailed, validated, chunks, audioBuffers, calls, combineCalls, inputFiles, spawned,
                 combinedBuffer, validation, pending, result, thrown>>

\* ffmpeg.on('error', reject): the process could not be started
FfmpegSpawnError ==
  /\ pc = "ffmpeg"
  /\ pending' = "spawn ffmpeg failed"
  /\ pc' = "ccleanup"
  /\ UNCHANGED <<callerVars, siteVars>>
  /\ UNCHANGED <<text, unlinkFailed, validated, chunks, audioBuffers, calls, combineCalls,
                 files, inputFiles, spawned, combinedBuffer, validation, result, thrown>>

\* else reject(new Error(`FFmpeg exited with code ${code}`)); the process may
\* have started to write outputFile
FfmpegExitNonZero ==
  /\ pc = "ffmpeg"
  /\ files' \in PartialOutputs(files, outputFile)
  /\ pending' = "FFmpeg exited with code"
  /\ pc' = "ccleanup"
  /\ UNCHANGED <<callerVars, siteVars>>
  /\ UNCHANGED <<text, unlinkFailed, validated, chunks, audioBuffers, calls, combineCalls,
                 inputFiles, spawned, combinedBuffer, validation, result, thrown>>

\* const combinedBuffer = await readFile(outputFile)
CombineRead ==
  /\ pc = "cread"
  /\ combinedBuffer' = files[outputFile].buf
  /\ pc' = "ccleanup"
  /\ UNCHANGED <<callerVars, siteVars>>
  /\ UNCHANGED <<text, unlinkFailed, validated, chunks, audioBuffers, calls, combineCalls, files, inputFiles,
                 spawned, validation, pending, result, thrown>>

\* combineAudioBuffers: const filesToDelete = [...inputFiles, inputListFile, outputFile]
filesToDelete == inputFiles \o <<inputListFile, outputFile>>

\* finally { await Promise.all(filesToDelete.map(file => unlink(file).catch(...))) }
CombineCleanup ==
  /\ pc = "ccleanup"
  /\ \E bad \in UnlinkFailures(files, filesToDelete) :
       /\ files' = UnlinkAllBut(files, filesToDelete, bad)
       /\ unlinkFailed' = unlinkFailed \cup bad
  /\ IF pending # ""
     THEN Reject(pending)
     ELSE pc' = "writeTemp" /\ UNCHANGED <<result, thrown>>
  /\ UNCHANGED <<callerVars, siteVars>>
  /\ UNCHANGED <<text, validated, chunks, audioBuffers, calls, combineCalls, inputFiles, spawned,
                 combinedBuffer, validation, pending>>

\* await writeFile(tempFile, combinedBuffer) throws, outside of the try block
WriteTempFail ==
  /\ pc = "writeTemp"
  /\ files' \in PartialOutputs(files, tempFile)
  /\ Reject("writeFile failed")
  /\ UNCHANGED <<callerVars, siteVars>>
  /\ UNCHANGED <<text, unlinkFailed, validated, chunks, audioBuffers, calls, combineCalls,
                 inputFiles, spawned, combinedBuffer, validation, pending>>

\* await writeFile(tempFile, combinedBuffer)
WriteTemp ==
  /\ pc = "writeTemp"
  /\ files' = WriteFile(files, tempFile, AudioFile(combinedBuffer))
  /\ pc' = "validate"
  /\ UNCHANGED <<callerVars, siteVars>>
  /\ UNCHANGED <<text, unlinkFailed, validated, chunks, audioBuffers, calls, combineCalls, inputFiles, spawned,
                 combinedBuffer, validation, pending, result, thrown>>

\* const validation = await validatePodcastAudio(tempFile)
Validate ==
  /\ pc = "validate"
  /\ \E probe \in ProbeOutcomes, id3Ok \in BOOLEAN :
       validation' = validatePodcastAudio(files, tempFile, defaultRequirements, probe, id3Ok)
  /\ validated' = Append(validated, tempFile)
  /\ pc' = "checked"
  /\ UNCHANGED <<callerVars, siteVars>>
  /\ UNCHANGED <<text, unlinkFailed, chunks, audioBuffers, calls, combineCalls, files, inputFiles,
                 spawned, combinedBuffer, pending, result, thrown>>

\* validation.isValid, or fixAudioIssues returned filePath itself:
\* return { buffer: combinedBuffer, validation }; finally { unlink(tempFile) }
ReturnOriginal ==
  /\ pc = "checked"
  /\ validation.isValid \/ ~needsConversion(validation)
  /\ \E bad \in UnlinkFailures(files, <<tempFile>>) :
       /\ files' = UnlinkAllBut(files, <<tempFile>>, bad)
       /\ unlinkFailed' = unlinkFailed \cup bad
  /\ Resolve(combinedBuffer, validation)
  /\ UNCHANGED <<callerVars, siteVars>>
  /\ UNCHANGED <<text, validated, chunks, audioBuffers, calls, combineCalls, inputFiles, spawned,
                 combinedBuffer, validation, pending>>

\* fixAudioIssues: execSync(ffmpegCommand.join(' ')); return outputPath
FixOk ==
  /\ pc = "checked"
  /\ ~validation.isValid /\ needsConversion(validation)
  /\ spawned' = spawned \o FixCommands(tempFile, validation)
  /\ files' = WriteFile(files, FixedPath(tempFile),
                        AudioFile(Reencode(files[tempFile].buf, validation)))
  /\ pc' = "fixed"
  /\ UNCHANGED <<callerVars, siteVars>>
  /\ UNCHANGED <<text, unlinkFailed, validated, chunks, audioBuffers, calls, combineCalls, inputFiles,
                 combinedBuffer, validation, pending, result, thrown>>

\* fixAudioIssues: execSync throws; throw new Error(`Failed to fix audio issues: ...`);
\* generateSpeech: finally { unlink(tempFile) }
FixFail ==
  /\ pc = "checked"
  /\ ~validation.isValid /\ needsConversion(validation)
  /\ spawned' = spawned \o FixCommands(tempFile, validation)
  /\ \E left \in PartialOutputs(files, FixedPath(tempFile)) :
       \E bad \in UnlinkFailures(left, <<tempFile>>) :
         /\ files' = UnlinkAllBut(left, <<tempFile>>, bad)
         /\ unlinkFailed' = unlinkFailed \cup bad
  /\ Reject("Failed to fix audio issues")
  /\ UNCHANGED <<callerVars, siteVars>>
  /\ UNCHANGED <<text, validated, chunks, audioBuffers, calls, combineCalls, inputFiles,
                 combinedBuffer, validation, pending>>

\* fixedPath !== tempFile: const fixedBuffer = await readFile(fixedPath), then
\* await unlink(fixedPath) or await unlink(tempFile) throws: the finally block
\* calls unlink(tempFile) and the error leaves generateSpeech
ReturnFixedUnlinkFail ==
  /\ pc = "fixed"
  /\ \E p \in {FixedPath(tempFile), tempFile} :
       /\ files' = IF p = tempFile THEN Unlink(files, FixedPath(tempFile))
                   ELSE Unlink(files, tempFile)
       /\ unlinkFailed' = unlinkFailed \cup {p}
  /\ Reject("unlink failed")
  /\ UNCHANGED <<callerVars, siteVars>>
  /\ UNCHANGED <<text, validated, chunks, audioBuffers, calls, combineCalls, inputFiles,
                 spawned, combinedBuffer, validation, pending>>

\* fixedPath !== tempFile: const fixedBuffer = await readFile(fixedPath);
\* await unlink(fixedPath); await unlink(tempFile);
\* const fixedValidation = await validatePodcastAudio(fixedPath);
\* return { buffer: fixedBuffer, validation: fixedValidation }; finally { unlink(tempFile) }
ReturnFixed ==
  /\ pc = "fixed"
  /\ LET fixedPath == FixedPath(tempFile)
         fixedBuffer == files[fixedPath].buf
         after == Unlink(Unlink(files, fixedPath), tempFile)
     IN /\ files' = after
        /\ validated' = Append(validated, fixedPath)
        /\ \E probe \in ProbeOutcomes, id3Ok \in BOOLEAN :
             Resolve(fixedBuffer,
                     validatePodcastAudio(after, fixedPath, defaultRequirements,
                                          probe, id3Ok))
  /\ UNCHANGED <<callerVars, siteVars>>
  /\ UNCHANGED <<text, unlinkFailed, chunks, audioBuffers, calls, combineCalls, inputFiles, spawned,
                 combinedBuffer, validation, pending>>

(***************************************************************************)
(* POST /api/articles (server/routes.ts 217-271): the promise chain        *)
(* generateSpeech(...).then(...).catch(...) that runs in the background    *)
(***************************************************************************)
\* join(process.cwd(), 'public/audio', generatePodcastFilename(nextEpisodeNumber, podcastTitle))
audioPath == generatePodcastFilename(metadata.episodeNumber, metadata.title)

\* await mkdir(audioDir, { recursive: true }); generateSpeech(...) is called
EnsureAudioDir ==
  /\ route = "mkdir"
  /\ route' = "await"
  /\ UNCHANGED <<siteVars, runVars, status, statusLog, audioDir>>

\* mkdir rejects: catch (error) { res.status(500).json(...) }; generateSpeech is
\* never called
EnsureAudioDirFail ==
  /\ route = "mkdir"
  /\ route' = "end"
  /\ UNCHANGED <<siteVars, runVars, status, statusLog, audioDir>>

\* db.update(articles).set({ status, ... }).where(eq(articles.id, article.id))
SetStatus(s) ==
  /\ status' = s
  /\ statusLog' = Append(statusLog, s)

\* .then: await writeFile(audioPath, audioBuffer)
ThenWriteAudio ==
  /\ route = "await"
  /\ result.status = "resolved"
  /\ audioDir' = WriteFile(audioDir, audioPath, AudioFile(result.buffer))
  /\ route' = "update"
  /\ UNCHANGED <<siteVars, runVars, status, statusLog>>

\* .then: writeFile(audioPath, audioBuffer) rejects; the chain goes on to .catch
ThenWriteAudioFail ==
  /\ route = "await"
  /\ result.status = "resolved"
  /\ audioDir' \in PartialOutputs(audioDir, audioPath)
  /\ route' = "catch"
  /\ UNCHANGED <<siteVars, runVars, status, statusLog>>

\* .then: await db.update(articles).set({ audioUrl, status: "completed", metadata })
ThenUpdateCompleted ==
  /\ route = "update"
  /\ SetStatus("completed")
  /\ route' = "end"
  /\ UNCHANGED <<siteVars, runVars, audioDir>>

\* .then: db.update rejects; the chain goes on to .catch
ThenUpdateFail ==
  /\ route = "update"
  /\ route' = "catch"
  /\ UNCHANGED <<siteVars, runVars, status, statusLog, audioDir>>

\* the .catch handler runs: generateSpeech rejected or the .then handler threw
Caught ==
  \/ route = "catch"
  \/ route = "await" /\ result.status = "rejected"

\* .catch: await db.update(articles).set({ status: "failed", metadata: { error } })
CatchUpdateFailed ==
  /\ Caught
  /\ SetStatus("failed")
  /\ route' = "end"
  /\ UNCHANGED <<siteVars, runVars, audioDir>>

\* .catch: db.update rejects; nothing handles the rejection of the chain
CatchUpdateFail ==
  /\ Caught
  /\ route' = "end"
  /\ UNCHANGED <<siteVars, runVars, status, statusLog, audioDir>>

(***************************************************************************)
(* Specifications                                                          *)
(***************************************************************************)
\* one request POST /api/articles, from the insert of the article on, and the run
\* of generateSpeech it starts
Init ==
  /\ text \in TextsOf(RunLens, RunSeps, MaxRunItems)
  /\ chunks = <<>>
  /\ pc = "start"
  /\ files = <<>>
  /\ route = "mkdir"
  /\ InitRest

Next ==
  \/ EnsureAudioDir
  \/ EnsureAudioDirFail
  \/ Segment
  \/ ChunkRefused
  \/ SpeechCall
  \/ SpeechOk
  \/ SpeechFail
  \/ UseSingle
  \/ CombineStart
  \/ CombineWrite
  \/ CombineWriteFail
  \/ CombineListWriteFail
  \/ CombineSpawn
  \/ FfmpegExitZero
  \/ FfmpegSpawnError
  \/ FfmpegExitNonZero
  \/ CombineRead
  \/ CombineCleanup
  \/ WriteTemp
  \/ WriteTempFail
  \/ Validate
  \/ ReturnOriginal
  \/ FixOk
  \/ FixFail
  \/ ReturnFixed
  \/ ReturnFixedUnlinkFail
  \/ ThenWriteAudio
  \/ ThenWriteAudioFail
  \/ ThenUpdateCompleted
  \/ ThenUpdateFail
  \/ CatchUpdateFailed
  \/ CatchUpdateFail

Spec == Init /\ [][Next]_vars

\* chunkText applied to every text of up to MaxItems words
InitChunk ==
  /\ text \in TextsOf(WordLens, Seps, MaxItems)
  /\ InitRun

NextChunk == Segment

SpecChunk == InitChunk /\ [][NextChunk]_vars

\* the for loop of generateSpeech over chunks handed to generateSpeechChunk directly:
\* the empty string, one character, and both sides of the 4096 limit
ChunkInputs == {<<>>, <<W(1, 1)>>, <<W(1, 4096)>>, <<W(1, 4097)>>}

InitSynth ==
  /\ text = <<>>
  /\ InitLocals
  /\ chunks \in UNION {[1..n -> ChunkInputs] : n \in 1..MaxSynthChunks}
  /\ pc = "loop"

NextSynth ==
  \/ ChunkRefused
  \/ SpeechCall
  \/ SpeechOk
  \/ SpeechFail

SpecSynth == InitSynth /\ [][NextSynth]_vars

\* validatePodcastAudio applied to one artifact: sizes on both sides of 200 MiB,
\* allowed and other extensions, bitrates on both sides of 64 and 320 kbps,
\* allowed and other sample rates, with and without a tag block
(***************************************************************************)
(* POST /api/articles and DELETE /api/articles/:id (server/routes.ts        *)
(* 161-278, 308-340) on one table, for several requests at a time.  The run *)
(* of generateSpeech is one step here, which resolves or rejects.           *)
(***************************************************************************)
\* articleData.title: "Custom Text" for posted content, else the extracted title
PostTitles == {"custom-text", "another-title"}

\* max(articles.episodeNumber) over the rows of the table, null when there is none
RECURSIVE MaxOf(_)
MaxOf(S) ==
  IF S = {} THEN 0
  ELSE LET x == CHOOSE y \in S : TRUE
           m == MaxOf(S \ {x})
       IN IF x > m THEN x ELSE m

maxEpisode(rows) == MaxOf({rows[id].episodeNumber : id \in DOMAIN rows})

\* the buffer generateSpeech resolves with for the article of request r
ArticleAudio(r) ==
  [src |-> <<r>>, enc |-> "concat", br |-> 128, sr |-> 44100, size |-> 1,
   tags |-> [title |-> reqs[r].title, episodeNumber |-> reqs[r].nextEpisodeNumber]]

At(r, from, to) ==
  /\ reqs[r].pc = from
  /\ reqs' = [reqs EXCEPT ![r].pc = to]

\* db.update(articles).set(fields).where(eq(articles.id, id)): no row, no change
UpdateStatus(rows, id, st) ==
  IF id \in DOMAIN rows THEN [rows EXCEPT ![id].status = st] ELSE rows

\* const [latestEpisode] = await db.select({ maxEpisode: max(articles.episodeNumber) });
\* const nextEpisodeNumber = (latestEpisode?.maxEpisode || 0) + 1
ArticleReadMax(r) ==
  /\ reqs[r].pc = "new"
  /\ \E title \in PostTitles :
       reqs' = [reqs EXCEPT ![r] = [@ EXCEPT !.pc = "insert", !.title = title,
                                             !.nextEpisodeNumber = maxEpisode(articles) + 1]]
  /\ UNCHANGED <<runVars, callerVars, articles, dels, today>>

\* const [article] = await db.insert(articles).values({...}).returning()
ArticleInsert(r) ==
  /\ At(r, "insert", "mkdir")
  /\ articles' = (r :> Row(reqs[r].title, reqs[r].nextEpisodeNumber)) @@ articles
  /\ UNCHANGED <<runVars, callerVars, dels, today>>

\* await mkdir(audioDir, { recursive: true }); generateSpeech(...) is called
ArticleMkdir(r) ==
  /\ At(r, "mkdir", "speech")
  /\ UNCHANGED <<runVars, callerVars, articles, dels, today>>

\* await mkdir(...) throws: res.status(500), generateSpeech is never called
ArticleMkdirFail(r) ==
  /\ At(r, "mkdir", "end")
  /\ UNCHANGED <<runVars, callerVars, articles, dels, today>>

\* generateSpeech(...) resolves
ArticleSpeechResolved(r) ==
  /\ At(r, "speech", "then")
  /\ UNCHANGED <<runVars, callerVars, articles, dels, today>>

\* generateSpeech(...) rejects
ArticleSpeechRejected(r) ==
  /\ At(r, "speech", "catch")
  /\ UNCHANGED <<runVars, callerVars, articles, dels, today>>

\* .then: const audioFileName = generatePodcastFilename(nextEpisodeNumber, podcastTitle);
\* await writeFile(audioPath, audioBuffer)
ArticleThenWrite(r) ==
  /\ reqs[r].pc = "then"
  /\ LET audioFileName == generatePodcastFilename(reqs[r].nextEpisodeNumber, reqs[r].title)
     IN /\ audioDir' = WriteFile(audioDir, audioFileName, AudioFile(ArticleAudio(r)))
        /\ reqs' = [reqs EXCEPT ![r] = [@ EXCEPT !.pc = "update",
                                                !.audioFileName = audioFileName]]
  /\ UNCHANGED <<runVars, route, status, statusLog, articles, dels, today>>

\* .then: await writeFile(audioPath, audioBuffer) throws
ArticleThenWriteFail(r) ==
  /\ At(r, "then", "catch")
  /\ audioDir' \in PartialOutputs(audioDir, generatePodcastFilename(reqs[r].nextEpisodeNumber,
                                                                   reqs[r].title))
  /\ UNCHANGED <<runVars, route, status, statusLog, articles, dels, today>>

\* .then: await db.update(articles).set({ audioUrl, status: "completed", ... })
\*          .where(eq(articles.id, article.id))
ArticleThenUpdate(r) ==
  /\ At(r, "update", "end")
  /\ articles' = IF r \in DOMAIN articles
                 THEN [articles EXCEPT ![r] = [@ EXCEPT !.audioUrl = reqs[r].audioFileName,
                                                       !.status = "completed"]]
                 ELSE articles
  /\ UNCHANGED <<runVars, callerVars, dels, today>>

\* .then: db.update rejects
ArticleThenUpdateFail(r) ==
  /\ At(r, "update", "catch")
  /\ UNCHANGED <<runVars, callerVars, articles, dels, today>>

\* .catch: await db.update(articles).set({ status: "failed", ... })
ArticleCatchUpdate(r) ==
  /\ At(r, "catch", "end")
  /\ articles' = UpdateStatus(articles, r, "failed")
  /\ UNCHANGED <<runVars, callerVars, dels, today>>

\* .catch: db.update rejects
ArticleCatchUpdateFail(r) ==
  /\ At(r, "catch", "end")
  /\ UNCHANGED <<runVars, callerVars, articles, dels, today>>

\* DELETE: const [article] = await db.select().from(articles).where(eq(articles.id, id))
DeleteSelect(id) ==
  /\ dels[id].pc = "idle"
  /\ id \in DOMAIN articles
  /\ dels' = [dels EXCEPT ![id] = [pc |-> "selected", article |-> articles[id]]]
  /\ UNCHANGED <<runVars, callerVars, articles, reqs, today>>

\* DELETE: if (!article) return res.status(404)
DeleteNotFound(id) ==
  /\ dels[id].pc = "idle"
  /\ id \notin DOMAIN articles
  /\ dels' = [dels EXCEPT ![id].pc = "done"]
  /\ UNCHANGED <<runVars, callerVars, articles, reqs, today>>

\* DELETE: the file name the handler computes for the row it selected
DeleteFileName(id) ==
  generatePodcastFilename(dels[id].article.episodeNumber, dels[id].article.title)

\* DELETE: if (article.audioUrl) { ... if (existsSync(audioPath)) await unlink(audioPath) }
DeleteUnlink(id) ==
  /\ dels[id].pc = "selected"
  /\ audioDir' = IF dels[id].article.audioUrl # NoUrl
                 THEN Unlink(audioDir, DeleteFileName(id))
                 ELSE audioDir
  /\ dels' = [dels EXCEPT ![id].pc = "delete"]
  /\ UNCHANGED <<runVars, route, status, statusLog, articles, reqs, today>>

\* DELETE: await unlink(audioPath) throws: res.status(500), the row stays
DeleteUnlinkFail(id) ==
  /\ dels[id].pc = "selected"
  /\ dels[id].article.audioUrl # NoUrl
  /\ DeleteFileName(id) \in DOMAIN audioDir
  /\ dels' = [dels EXCEPT ![id].pc = "done"]
  /\ UNCHANGED <<runVars, callerVars, articles, reqs, today>>

\* DELETE: await db.delete(articles).where(eq(articles.id, articleId)); 204
DeleteRow(id) ==
  /\ dels[id].pc = "delete"
  /\ articles' = [i \in DOMAIN articles \ {id} |-> articles[i]]
  /\ dels' = [dels EXCEPT ![id].pc = "done"]
  /\ UNCHANGED <<runVars, callerVars, reqs, today>>

\* midnight passes
NextDay ==
  /\ today < MaxDays
  /\ today' = today + 1
  /\ UNCHANGED <<runVars, callerVars, articles, reqs, dels>>

InitArticles ==
  /\ text = <<>>
  /\ chunks = <<>>
  /\ pc = "site"
  /\ files = <<>>
  /\ route = "site"
  /\ InitRest

NextArticles ==
  \/ \E r \in Requests :
       \/ ArticleReadMax(r)
       \/ ArticleInsert(r)
       \/ ArticleMkdir(r)
       \/ ArticleMkdirFail(r)
       \/ ArticleSpeechResolved(r)
       \/ ArticleSpeechRejected(r)
       \/ ArticleThenWrite(r)
       \/ ArticleThenWriteFail(r)
       \/ ArticleThenUpdate(r)
       \/ ArticleThenUpdateFail(r)
       \/ ArticleCatchUpdate(r)
       \/ ArticleCatchUpdateFail(r)
  \/ \E id \in Requests :
       \/ DeleteSelect(id)
       \/ DeleteNotFound(id)
       \/ DeleteUnlink(id)
       \/ DeleteUnlinkFail(id)
       \/ DeleteRow(id)
  \/ NextDay

SpecArticles == InitArticles /\ [][NextArticles]_vars

ArtifactSizes == {1, 200, 201}

ArtifactExts == {"mp3", "m4a", "wav"}

ArtifactBitrates == {0, 63, 64, 128, 320, 321, 500}

ArtifactSampleRates == {22050, 44100, 48000}

ArtifactTags == {NoTags, metadata}

ArtifactPath(ext) == Path("artifact", 0, "", "", ext)

Artifact(br, sr, size, tags) ==
  [src |-> <<1>>, enc |-> "any", br |-> br, sr |-> sr, size |-> size, tags |-> tags]

Artifacts ==
  {Artifact(br, sr, size, tags) :
     br \in ArtifactBitrates, sr \in ArtifactSampleRates,
     size \in ArtifactSizes, tags \in ArtifactTags}

InitValidate ==
  /\ text = <<>>
  /\ chunks = <<>>
  /\ pc = "probe"
  /\ route = "await"
  /\ files \in {<<>>} \cup {(ArtifactPath(ext) :> AudioFile(b)) :
                              ext \in ArtifactExts, b \in Artifacts}
  /\ InitRest

\* const report = await validatePodcastAudio(filePath) on the artifact, or on a
\* path where no file is
ValidateArtifact ==
  /\ pc = "probe"
  /\ \E ext \in ArtifactExts, probe \in ProbeOutcomes, id3Ok \in BOOLEAN :
       LET filePath == ArtifactPath(ext)
       IN /\ files = <<>> \/ filePath \in DOMAIN files
          /\ validation' = validatePodcastAudio(files, filePath, defaultRequirements,
                                                probe, id3Ok)
          /\ validated' = Append(validated, filePath)
  /\ pc' = "probed"
  /\ UNCHANGED <<callerVars, siteVars>>
  /\ UNCHANGED <<text, unlinkFailed, chunks, audioBuffers, calls, combineCalls, files, inputFiles,
                 spawned, combinedBuffer, pending, result, thrown>>

\* const fixedPath = await fixAudioIssues(filePath, report): the path itself when
\* nothing is to convert, else the path of the re-encoded file
FixArtifact ==
  /\ pc = "probed"
  /\ LET filePath == validated[1]
     IN /\ spawned' = spawned \o FixCommands(filePath, validation)
        /\ files' = IF needsConversion(validation)
                    THEN WriteFile(files, FixedPath(filePath),
                                   AudioFile(Reencode(files[filePath].buf, validation)))
                    ELSE files
  /\ pc' = "repaired"
  /\ UNCHANGED <<callerVars, siteVars>>
  /\ UNCHANGED <<text, unlinkFailed, validated, chunks, audioBuffers, calls, combineCalls, inputFiles,
                 combinedBuffer, validation, pending, result, thrown>>

\* fixAudioIssues: execSync throws; throw new Error(`Failed to fix audio issues: ...`)
FixArtifactFail ==
  /\ pc = "probed"
  /\ needsConversion(validation)
  /\ LET filePath == validated[1]
     IN /\ spawned' = spawned \o FixCommands(filePath, validation)
        /\ files' \in PartialOutputs(files, FixedPath(filePath))
  /\ thrown' = Append(thrown, "Failed to fix audio issues")
  /\ pc' = "repairFailed"
  /\ UNCHANGED <<callerVars, siteVars>>
  /\ UNCHANGED <<text, unlinkFailed, validated, chunks, audioBuffers, calls, combineCalls, inputFiles,
                 combinedBuffer, validation, pending, result>>

NextValidate == ValidateArtifact \/ FixArtifact \/ FixArtifactFail

SpecValidate == InitValidate /\ [][NextValidate]_vars

(***************************************************************************)
(* Claims                                                                  *)
(***************************************************************************)
Segmented == pc # "start"

\* the words of a string
WordIds(s) == {s[i].id : i \in {j \in 1..Len(s) : s[j].k \in {"w", "conj"}}}

RECURSIVE Normalize(_)
\* whitespace normalisation: trimmed, every run of whitespace one space
Normalize(s) ==
  LET t == Trim(s)
  IN IF t = <<>> THEN <<>>
     ELSE IF IsWs(Head(t)) THEN Normalize(Tail(t))
     ELSE IF Len(t) > 1 /\ IsWs(t[2])
          THEN <<Head(t), SP>> \o Normalize(Tail(t))
          ELSE <<Head(t)>> \o Normalize(Tail(t))

RECURSIVE JoinChunks(_)
\* chunks.join(" ")
JoinChunks(cs) ==
  IF cs = <<>> THEN <<>>
  ELSE IF Len(cs) = 1 THEN cs[1]
  ELSE cs[1] \o <<SP>> \o JoinChunks(Tail(cs))

\* the running buffer (currentChunk) as the sentence loop of the last paragraph
\* leaves it; empty when that paragraph is not split into sentences
FinalBuffer(t) ==
  LET ps == SelectSeq(SplitParagraphs(t), LAMBDA p : StrLen(Trim(p)) # 0)
  IN IF ps = <<>> THEN <<>>
     ELSE IF StrLen(ps[Len(ps)]) <= MAX_CHUNK_SIZE THEN <<>>
     ELSE OversizedParagraph(<<>>, ps[Len(ps)]).currentChunk

\* C1: every chunk chunkText returns is at most 3800 characters long, for every
\* input, single whitespace-free words of any length included.
C1_ChunkWithinCeiling ==
  Segmented => \A i \in 1..Len(chunks) : StrLen(chunks[i]) <= MAX_CHUNK_SIZE

\* C2: chunks come in source order: for chunks i < j, every word of chunk i
\* occurs in the input before every word of chunk j.
C2_ChunksInSourceOrder ==
  Segmented =>
    \A i, j \in 1..Len(chunks) :
      i < j => \A a \in WordIds(chunks[i]), b \in WordIds(chunks[j]) : a < b

\* C3: joining the chunks in order reproduces the input up to whitespace
\* normalisation; no word of the input is dropped.
C3_RoundTrip ==
  Segmented => Normalize(JoinChunks(chunks)) = Normalize(text)

\* C4: the final running buffer is emitted as the last chunk at end of input even
\* when it is shorter than 100 characters, and no other chunk is below the minimum.
C4_FinalBufferFlushed ==
  Segmented =>
    /\ FinalBuffer(text) # <<>> =>
         chunks # <<>> /\ chunks[Len(chunks)] = Trim(FinalBuffer(text))
    /\ \A i \in 1..(Len(chunks) - 1) : StrLen(chunks[i]) >= MIN_CHUNK_SIZE

\* C5: a text that yields zero chunks makes generateSpeech fail with an explicit
\* empty-text error before any external capability is used: no speech call, no
\* ffmpeg process, no scratch file.
C5_EmptyInputShortCircuits ==
  (Segmented /\ chunks = <<>>) =>
    /\ calls = <<>>
    /\ spawned = <<>>
    /\ files = <<>>
    /\ pc = "rejected" => thrown = <<"Empty text">>

\* C6: the speech capability is called once per chunk, in chunk order, one call
\* at a time (a call starts only after the previous one was answered), a failed
\* call is the last one of the run (never retried), and a run that resolves has
\* made exactly one call for every chunk.
C6_SequentialOncePerChunk ==
  /\ \A k \in 1..Len(calls) :
       /\ calls[k].chunk = (k + 1) \div 2
       /\ k % 2 = 1 => calls[k].ev = "call"
       /\ k % 2 = 0 => calls[k].ev \in {"ok", "fail"}
       /\ calls[k].ev = "fail" => k = Len(calls)
  /\ result.status = "resolved" => Len(calls) = 2 * Len(chunks)

\* C6 witness: a run of two or more chunks resolved
C6_Witness == result.status = "resolved" /\ Len(chunks) >= 2

\* synthesis of some chunk failed: the capability failed or generateSpeechChunk refused
SynthesisFailed ==
  \/ \E k \in 1..Len(calls) : calls[k].ev = "fail"
  \/ \E k \in 1..Len(thrown) :
       thrown[k] \in {"Empty text chunk received",
                      "Chunk size exceeds OpenAI's limit of 4096 characters"}

\* C7: when synthesis of a chunk fails the run aborts there: no later chunk is
\* synthesized, concatenation and validation never start, no buffer is returned
\* and generateSpeech rejects with exactly one error.
C7_SynthesisFailureAborts ==
  SynthesisFailed =>
    /\ pc = "rejected"
    /\ Len(thrown) = 1
    /\ result.status = "rejected" /\ result.buffer = NoBuffer
    /\ \A k \in 1..Len(calls) : calls[k].ev = "fail" => k = Len(calls)
    /\ Len(calls) <= 2 * (Len(audioBuffers) + 1)
    /\ combineCalls = 0 /\ spawned = <<>> /\ files = <<>>
    /\ validation = NoReport /\ combinedBuffer = NoBuffer

\* C7 witness: the second chunk failed after the first was synthesized
C7_Witness ==
  /\ Len(audioBuffers) = 1
  /\ Len(calls) = 4 /\ calls[4].ev = "fail"
  /\ pc = "rejected"

BadChunk(c) == StrLen(c) = 0 \/ StrLen(c) > OPENAI_LIMIT

\* C8: generateSpeechChunk makes no outbound call for an empty chunk or a chunk
\* of more than 4096 characters, and fails instead.
C8_NoCallForBadChunk ==
  /\ \A k \in 1..Len(calls) : ~BadChunk(chunks[calls[k].chunk])
  /\ (pc # "start" /\ NextChunkIndex <= Len(chunks) /\ BadChunk(chunks[NextChunkIndex])) =>
       \/ pc = "loop" /\ result.status = "pending"
       \/ /\ pc = "rejected"
          /\ thrown = <<IF StrLen(chunks[NextChunkIndex]) = 0
                        THEN "Empty text chunk received"
                        ELSE "Chunk size exceeds OpenAI's limit of 4096 characters">>

\* C8 witness: a chunk of 4097 characters was refused after a chunk was synthesized
C8_Witness ==
  /\ pc = "rejected"
  /\ Len(audioBuffers) = 1 /\ Len(chunks) >= 2
  /\ StrLen(chunks[2]) = OPENAI_LIMIT + 1
  /\ Len(calls) = 2

\* C9: when ffmpeg is started for two or more chunks, the concat list names the
\* per-chunk files in chunk order, entry i being the file that holds the buffer
\* synthesized from chunk i, every chunk exactly once.
C9_ConcatListInChunkOrder ==
  (pc = "ffmpeg" /\ Len(chunks) >= 2) =>
    LET list == spawned[Len(spawned)].list
    IN /\ list = ListLines(files)
       /\ Len(list) = Len(chunks)
       /\ \A i \in 1..Len(list) :
            /\ list[i] = ChunkFile(i)
            /\ list[i] \in DOMAIN files
            /\ files[list[i]].buf = audioBuffers[i]
            /\ files[list[i]].buf.src = <<i>>

\* C9 witness: ffmpeg runs on the list of a run of two or more chunks
C9_Witness == pc = "ffmpeg" /\ Len(chunks) >= 2 /\ Len(spawned) = 1

ConcatSpawned == \E k \in 1..Len(spawned) : spawned[k].cmd = "concat"

FixSpawned == \E k \in 1..Len(spawned) : spawned[k].cmd = "fix"

\* C10 as claimed: with exactly one chunk the concatenation is never invoked and
\* the returned buffer is the synthesizer's output, on every path.
C10_SingleChunkRawOnEveryPath ==
  (Segmented /\ Len(chunks) = 1) =>
    /\ combineCalls = 0 /\ ~ConcatSpawned
    /\ result.status = "resolved" => result.buffer = audioBuffers[1]

\* C10 amended: with exactly one chunk the concatenation is never invoked; the
\* returned buffer is the synthesizer's output unless the repairer re-encoded
\* it, and then it is the re-encoded artifact.
C10_SingleChunkShortcut ==
  (Segmented /\ Len(chunks) = 1) =>
    /\ combineCalls = 0 /\ ~ConcatSpawned
    /\ \A i \in DOMAIN files : i.kind \notin {"chunk", "list", "episode"}
    /\ result.status = "resolved" =>
         result.buffer = IF FixSpawned THEN Reencode(audioBuffers[1], validation)
                         ELSE audioBuffers[1]

\* C10 witness: a one-chunk run resolved with the synthesizer's own buffer
\* although its first report was invalid
C10_Witness ==
  /\ Len(chunks) = 1
  /\ result.status = "resolved"
  /\ result.buffer = audioBuffers[1]
  /\ ~result.validation.isValid

Settled == pc \in {"done", "rejected"}

\* C11: every buffer a successful generateSpeech run returns carries the caller's
\* title and episode number in its tag block, for every number of chunks, one
\* included.
C11_ReturnedArtifactStamped ==
  result.status = "resolved" =>
    /\ result.buffer.tags.title = metadata.title
    /\ result.buffer.tags.episodeNumber = metadata.episodeNumber

\* C12: once generateSpeech has returned or rejected, on any exit path, none of
\* the scratch files the run created is left: no per-chunk file, no concat list,
\* no concat output, no temp_<uuid>.mp3 and no fixed_temp_<uuid>.mp3 (a file
\* whose deletion itself failed aside).
C12_NoScratchFileLeft == Settled => DOMAIN files \subseteq unlinkFailed

\* the random tokens of another run of the pipeline
otherSessionId == "uuid-3"

otherTempId == "uuid-4"

\* the metadata of another run: the same title and episode number, or others
OtherMetadata == {metadata, [title |-> "another-title", episodeNumber |-> 2]}

\* the scratch paths a run with these tokens and this metadata uses for n chunks
ScratchPathsOf(sid, uuid, md, n) ==
  {ChunkFileOf(sid, i) : i \in 1..n}
    \cup {InputListFileOf(sid), OutputFileOf(md), TempFileOf(uuid), FixedPath(TempFileOf(uuid))}

\* C13: every scratch path of a run holds one of the run's own random tokens, so
\* no file of the run is at a path that another run, with other tokens, uses,
\* even when the other run has the same title and episode number.
C13_ScratchPathsCarryToken ==
  /\ \A p \in DOMAIN files : p.token \in {sessionId, tempId}
  /\ \A md \in OtherMetadata :
       DOMAIN files \cap ScratchPathsOf(otherSessionId, otherTempId, md, MaxRunItems) = {}

Has(seq, x) == \E k \in 1..Len(seq) : seq[k] = x

\* C14: in every report of validatePodcastAudio, isValid is true exactly when the
\* list of errors is empty, whatever the warnings are.
C14_ValidIffNoErrors ==
  validated # <<>> => (validation.isValid <=> validation.errors = <<>>)

\* C14 witness: a report with a warning and no error, which is valid
C14_Witness ==
  /\ validated # <<>>
  /\ validation.warnings # <<>>
  /\ validation.errors = <<>>
  /\ validation.isValid

\* the number of the four properties (size, extension, bitrate range, sample
\* rate) that file f at path p violates
ViolatedCount(p, f) ==
  LET r == defaultRequirements
      one(c) == IF c THEN 1 ELSE 0
  IN one(f.buf.size > r.maxFileSize) + one(ExtName(p) \notin r.allowedFormats)
       + one(f.buf.br < r.minBitrate \/ f.buf.br > r.maxBitrate)
       + one(f.buf.sr \notin r.allowedSampleRates)

\* C15: the checks of the validator do not short-circuit one another: the report
\* on an artifact holds the size error exactly when the size is over the limit and
\* the format error exactly when the extension is not allowed, also when the probe
\* fails; when the probe succeeds it holds the bitrate error exactly when the
\* bitrate is out of range and the sample rate error exactly when the rate is not
\* allowed, one error per violated property and no other; 500 kbps at 22050 Hz
\* gives exactly the bitrate-too-high and the sample rate error.
C15_ValidatorIndependence ==
  (validated # <<>> /\ validated[1] \in DOMAIN files) =>
    LET p == validated[1]
        b == files[p].buf
        r == defaultRequirements
        e == validation.errors
    IN /\ Has(e, "File size exceeds maximum") <=> b.size > r.maxFileSize
       /\ Has(e, "File format is not supported") <=> ExtName(p) \notin r.allowedFormats
       /\ validation.metadata.probed =>
            /\ Has(e, "Bitrate is below minimum") <=> b.br < r.minBitrate
            /\ Has(e, "Bitrate exceeds maximum") <=> b.br > r.maxBitrate
            /\ Has(e, "Sample rate is not supported") <=> b.sr \notin r.allowedSampleRates
            /\ Len(e) = ViolatedCount(p, files[p])
            /\ (b.br = 500 /\ b.sr = 22050 /\ ViolatedCount(p, files[p]) = 2) =>
                 e = <<"Bitrate exceeds maximum", "Sample rate is not supported">>

\* C15 witness: an artifact that is oversized, of a format that is not allowed,
\* over the bitrate range and at a sample rate that is not allowed: four errors
C15_Witness ==
  /\ validated # <<>> /\ validated[1] \in DOMAIN files
  /\ validation.metadata.probed
  /\ ViolatedCount(validated[1], files[validated[1]]) = 4
  /\ Len(validation.errors) = 4

StreamErrorTexts ==
  {"Bitrate is below minimum", "Bitrate exceeds maximum", "Sample rate is not supported"}

\* the first report of the run fails, and only with errors of these texts
FirstReportFailsOnlyOn(texts) ==
  /\ validated # <<>>
  /\ ~validation.isValid
  /\ \A k \in 1..Len(validation.errors) : validation.errors[k] \in texts

\* C16: when the first report fails only on bitrate and/or sample rate and the
\* run returns, fixAudioIssues ran once, the validator was then run on the
\* repaired artifact, and the report returned is that second report, valid and
\* without errors.
C16_RepairConverges ==
  (result.status = "resolved" /\ FirstReportFailsOnlyOn(StreamErrorTexts)) =>
    /\ Len(SelectSeq(spawned, LAMBDA c : c.cmd = "fix")) = 1
    /\ validated = <<tempFile, FixedPath(tempFile)>>
    /\ result.validation.isValid
    /\ result.validation.errors = <<>>

\* C17: when the failing first report holds no fixable condition (only the file
\* size and/or the format error), no re-encode is started and no repaired file is
\* written, and generateSpeech returns the original buffer with that failing
\* report.
C17_NothingFixable ==
  FirstReportFailsOnlyOn({"File size exceeds maximum", "File format is not supported"}) =>
    /\ ~FixSpawned
    /\ FixedPath(tempFile) \notin DOMAIN files
    /\ pc \in {"checked", "done"}
    /\ pc = "done" =>
         /\ result.status = "resolved"
         /\ result.buffer = combinedBuffer
         /\ result.validation = validation
         /\ ~result.validation.isValid
         /\ validated = <<tempFile>>

\* C17 witness: a run returned an oversized artifact with the failing report
C17_Witness ==
  /\ pc = "done"
  /\ validation.errors = <<"File size exceeds maximum">>
  /\ result.buffer = combinedBuffer
  /\ ~result.validation.isValid

\* C18: when the report generateSpeech hands back has isValid false, the run is
\* recorded as failed, never as completed; the buffer and the failing report are
\* handed back all the same.
C18_InvalidReportRecordedFailed ==
  /\ status = "completed" => result.validation.isValid
  /\ (result.status = "resolved" /\ ~result.validation.isValid) =>
       result.buffer # NoBuffer /\ result.validation.errors # <<>>

TerminalStatuses == {"completed", "failed"}

\* C19: when the promise chain of a run has ended, the article has left
\* "processing" for "completed" or "failed"; the status is set at most once, and
\* to a terminal status.
C19_OneTerminalStatus ==
  /\ route = "end" => status \in TerminalStatuses
  /\ Len(statusLog) <= 1
  /\ statusLog # <<>> => status = statusLog[1] /\ status \in TerminalStatuses
  /\ statusLog = <<>> => status = "processing"

\* C20: whenever two or more segments are joined, the concatenation command
\* copies the encoded streams (-c copy) and names no encoder.
C20_ConcatIsStreamCopy ==
  \A k \in 1..Len(spawned) :
    (spawned[k].cmd = "concat" /\ Len(spawned[k].list) >= 2) => spawned[k].codec = "copy"

\* an artifact was at the path the validator was first run on
ArtifactReported == validated # <<>> /\ validated[1] \in DOMAIN files

\* the repairer was run on the first report
Repaired == pc \in {"repaired", "repairFailed"}

BitrateErrorIn(e) == Has(e, "Bitrate is below minimum") \/ Has(e, "Bitrate exceeds maximum")

\* C23: when the stream probe fails, validatePodcastAudio throws nothing and
\* returns a report that holds the probe error exactly once, after the size and
\* the format errors already collected, which are kept, and no other error; the
\* tag step of an mp3 file has run all the same.
C23_ProbeFailureIsOneError ==
  (ArtifactReported /\ Has(validation.errors, "Failed to read audio metadata")) =>
    LET p == validated[1]
        b == files[p].buf
        r == defaultRequirements
        e == validation.errors
        one(c) == IF c THEN 1 ELSE 0
    IN /\ Len(SelectSeq(e, LAMBDA x : x = "Failed to read audio metadata")) = 1
       /\ e[Len(e)] = "Failed to read audio metadata"
       /\ Has(e, "File size exceeds maximum") <=> b.size > r.maxFileSize
       /\ Has(e, "File format is not supported") <=> ExtName(p) \notin r.allowedFormats
       /\ Len(e) = 1 + one(b.size > r.maxFileSize) + one(ExtName(p) \notin r.allowedFormats)
       /\ ExtName(p) = "mp3" =>
            validation.warnings # <<>> \/ validation.metadata.hasId3Tags
       /\ validation.metadata.fileSize = b.size
       /\ ~validation.isValid
       /\ thrown = <<>>

\* C23 witness: the probe failed on an oversized mp3 file without tags: the size
\* error is kept and the tag warning is there
C23_Witness ==
  /\ ArtifactReported
  /\ ExtName(validated[1]) = "mp3"
  /\ validation.errors = <<"File size exceeds maximum", "Failed to read audio metadata">>
  /\ validation.warnings = <<"Missing ID3 tags">>

\* C24: for a probed artifact a bitrate error is reported exactly when the
\* bitrate is under minBitrate or over maxBitrate; a bitrate equal to one of the
\* two bounds gives no bitrate error.
C24_BitrateRangeInclusive ==
  (ArtifactReported /\ validation.metadata.probed) =>
    LET b == files[validated[1]].buf
        r == defaultRequirements
        e == validation.errors
    IN /\ BitrateErrorIn(e) <=> (b.br < r.minBitrate \/ b.br > r.maxBitrate)
       /\ Has(e, "Bitrate is below minimum") => b.br < r.minBitrate
       /\ Has(e, "Bitrate exceeds maximum") => b.br > r.maxBitrate
       /\ b.br \in {r.minBitrate, r.maxBitrate} => ~BitrateErrorIn(e)

\* C24 witness: a probed artifact at exactly maxBitrate, reported without error
C24_Witness ==
  /\ ArtifactReported
  /\ validation.metadata.probed
  /\ validation.metadata.bitrate = defaultRequirements.maxBitrate
  /\ validation.errors = <<>>

TagWarningTexts == {"Missing ID3 tags", "Could not check ID3 tags"}

\* C25: the tag step runs for mp3 files only: a file of another format gets no
\* warning; an mp3 file without tags, or whose tag probe fails, gets one warning,
\* never an error, and its report is valid when no property is violated.
C25_TagStepWarnsOnly ==
  ArtifactReported =>
    LET p == validated[1]
        b == files[p].buf
        w == validation.warnings
        e == validation.errors
    IN /\ ExtName(p) # "mp3" => (w = <<>> /\ ~validation.metadata.hasId3Tags)
       /\ Len(w) <= 1
       /\ \A k \in 1..Len(w) : w[k] \in TagWarningTexts
       /\ \A k \in 1..Len(e) : e[k] \notin TagWarningTexts
       /\ (ExtName(p) = "mp3" /\ b.tags = NoTags) => w # <<>>
       /\ (ExtName(p) = "mp3" /\ w = <<>>) => validation.metadata.hasId3Tags
       /\ (validation.metadata.probed /\ ViolatedCount(p, files[p]) = 0) =>
            validation.isValid

\* C25 witness: the tag probe failed on an mp3 file whose report is valid
C25_Witness ==
  /\ ArtifactReported
  /\ ExtName(validated[1]) = "mp3"
  /\ validation.warnings = <<"Could not check ID3 tags">>
  /\ validation.isValid

\* C26: one call of fixAudioIssues starts at most one ffmpeg process and writes
\* at most one new file; when the probed bitrate is out of range and the sample
\* rate is not allowed, that one command carries both -b:a 128k and -ar 44100 and
\* the new file is at 128 kbps and 44100 Hz.
C26_OneReencodeCarriesBoth ==
  Repaired =>
    LET p == validated[1]
        r == defaultRequirements
    IN /\ Len(spawned) <= 1
       /\ Cardinality(DOMAIN files \ {p}) <= 1
       /\ (/\ p \in DOMAIN files
           /\ validation.metadata.probed
           /\ files[p].buf.br < r.minBitrate \/ files[p].buf.br > r.maxBitrate
           /\ files[p].buf.sr \notin r.allowedSampleRates) =>
            /\ Len(spawned) = 1
            /\ spawned[1].ba /\ spawned[1].ar
            /\ pc = "repaired" =>
                 /\ files[FixedPath(p)].buf.br = 128
                 /\ files[FixedPath(p)].buf.sr = 44100

\* C27: fixAudioIssues sets the bitrate exactly when the report it is given holds
\* a bitrate error, and resamples exactly when the report holds the sample rate
\* error.
C27_RepairAgreesWithReport ==
  Repaired =>
    /\ (\E k \in 1..Len(spawned) : spawned[k].ba) <=> BitrateErrorIn(validation.errors)
    /\ (\E k \in 1..Len(spawned) : spawned[k].ar)
         <=> Has(validation.errors, "Sample rate is not supported")

\* combineAudioBuffers was called and its promise has settled
CombineSettled == combineCalls > 0 /\ pc \notin {"cwrite", "ffmpeg", "cread", "ccleanup"}

CombineKinds == {"chunk", "list", "episode"}

\* C21: when the promise of combineAudioBuffers has settled, whether resolved or
\* rejected, no per-chunk file, no concat list and no output file is left (a
\* file whose deletion itself failed aside), also not a per-chunk file whose
\* write failed part-way; and when ffmpeg did not start or exited non-zero, or a
\* write failed, the promise is rejected with that error.
C21_CombineCleansUpAndRejects ==
  /\ CombineSettled =>
       \A p \in DOMAIN files : p.kind \in CombineKinds => p \in unlinkFailed
  /\ (pc = "ccleanup" /\ pending # "") => combinedBuffer = NoBuffer
  /\ (CombineSettled /\ combinedBuffer = NoBuffer) =>
       /\ pc = "rejected"
       /\ thrown \in {<<"FFmpeg exited with code">>, <<"spawn ffmpeg failed">>,
                       <<"writeFile failed">>}

\* C22: generateSpeech never rejects with the error of an unlink call: a deletion
\* that fails is swallowed, and the run settles as it does when the deletion
\* succeeds.
C22_UnlinkFailureNotEscalated ==
  /\ \A k \in 1..Len(thrown) : thrown[k] # "unlink failed"
  /\ (pc = "rejected" /\ unlinkFailed # {}) =>
       thrown \in {<<"FFmpeg exited with code">>, <<"spawn ffmpeg failed">>,
                   <<"writeFile failed">>, <<"Failed to fix audio issues">>}

\* no handler of the site is between two of its steps
Quiescent ==
  /\ \A r \in Requests : reqs[r].pc \in {"new", "end"}
  /\ \A id \in Requests : dels[id].pc \in {"idle", "done"}

\* C28: no two rows of the table articles carry the same episodeNumber, under any
\* interleaving of POST /api/articles requests.
C28_EpisodeNumbersUnique ==
  \A a, b \in DOMAIN articles :
    a # b => articles[a].episodeNumber # articles[b].episodeNumber

\* C29: once every request has been handled to its end, every file in
\* public/audio is the one the audioUrl of a row of the table names.
C29_NoOrphanedAudio ==
  Quiescent =>
    \A f \in DOMAIN audioDir : \E id \in DOMAIN articles : articles[id].audioUrl = f

\* C30: a row with status "completed" has an audioUrl, and while no DELETE has
\* started the file it names is in public/audio, written completely and holding
\* the audio of that article; a row with status "failed" has no audioUrl, and none
\* of the files in public/audio holds the audio of that article.
C30_StatusMatchesArtifact ==
  \A id \in DOMAIN articles :
    /\ articles[id].status = "completed" =>
         /\ articles[id].audioUrl # NoUrl
         /\ (\A d \in Requests : dels[d].pc = "idle") =>
              /\ articles[id].audioUrl \in DOMAIN audioDir
              /\ audioDir[articles[id].audioUrl] = AudioFile(ArticleAudio(id))
    /\ articles[id].status = "failed" =>
         /\ articles[id].audioUrl = NoUrl
         /\ \A f \in DOMAIN audioDir : audioDir[f].buf.src # <<id>>

=============================================================================
